---- MODULE Spec2Model ----
(***************************************************************************)
(* Model of the DeepSeek-OCR service (src/services/deepseek-ocr-service/   *)
(* main.py): the prompt builder, the grounding parser and the text         *)
(* cleaner (Spec), the /api/ocr handler that uses them (SpecOcr), and      *)
(* concurrent calls of the three functions (SpecCalls).                    *)
(*                                                                         *)
(* A Python string is a sequence of tokens.  A token is a record           *)
(* [k, v]: k names the token (a structural marker, a bracket, a word, a    *)
(* whole literal of the source, or "num"), v is the value of a number.     *)
(* The markers never share characters with other tokens, so matching a     *)
(* regular expression token by token is matching it character by           *)
(* character.                                                              *)
(***************************************************************************)
EXTENDS Integers, Sequences, FiniteSets, TLC

\* ------------------------------------------------------------------ bounds
\* Largest number of segments (plain text or detection blocks) of a raw text.
MaxSegs == 3

\* ------------------------------------------------------------------ tokens
T(s) == [k |-> s, v |-> 0]
Num(n) == [k |-> "num", v |-> n]

REF == T("<|ref|>")
EREF == T("<|/ref|>")
DET == T("<|det|>")
EDET == T("<|/det|>")
GROUNDING == T("<|grounding|>")
IMAGE == T("<image>")
NL == T("\n")
SP == T(" ")
LB == T("[")
RB == T("]")
LP == T("(")
RP == T(")")
COMMA == T(",")
STR == T("'s'")
TRUE_LIT == T("True")
DICT == T("{'k': 1}")

\* Python's None, for a string argument and for an int argument.
NoneText == <<T("None")>>
NoneDim == -1

\* \s of the regular expressions and the characters str.strip() removes.
IsSpace(tok) == tok \in {SP, NL}

MinOf(S) == CHOOSE x \in S : \A y \in S : x <= y
MaxOf(S) == CHOOSE x \in S : \A y \in S : x >= y

\* str.strip()
Strip(s) ==
    LET idx == {i \in 1..Len(s) : ~IsSpace(s[i])}
    IN  IF idx = {} THEN <<>> ELSE SubSeq(s, MinOf(idx), MaxOf(idx))

RECURSIVE Flatten(_)
Flatten(ss) == IF ss = <<>> THEN <<>> ELSE Head(ss) \o Flatten(Tail(ss))

\* Number of occurrences of token t in s.
Count(s, t) == Cardinality({i \in 1..Len(s) : s[i] = t})

\* ------------------------------------------------- the DET_BLOCK expression
\* First position >= i that holds no white space (Len(s)+1 when none): \s*
RECURSIVE SkipSpace(_, _)
SkipSpace(s, i) == IF i > Len(s) \/ ~IsSpace(s[i]) THEN i ELSE SkipSpace(s, i + 1)

At(s, i, tok) == i <= Len(s) /\ s[i] = tok

\* Positions of the "[" that opens the coords group, when <|/ref|> is at p.
CoordsOpen(s, p) == SkipSpace(s, SkipSpace(s, p + 1) + 1)

\* Positions e of a "]" that can close the coords group opened at b:
\* \] \s* <\|/det\|>
CoordsCloses(s, b) ==
    {e \in (b + 1)..Len(s) : s[e] = RB /\ At(s, SkipSpace(s, e + 1), EDET)}

\* The rest of the expression matches when the label ends right before p.
TailOK(s, p) ==
    /\ At(s, p, EREF)
    /\ At(s, SkipSpace(s, p + 1), DET)
    /\ At(s, CoordsOpen(s, p), LB)
    /\ CoordsCloses(s, CoordsOpen(s, p)) # {}

\* (?P<coords>\[.*\]) is greedy with DOTALL: it ends at the last "]" of the
\* text that is followed by \s*<|/det|>.
CoordsClose(s, b) == MaxOf(CoordsCloses(s, b))

\* (?P<label>.*?) is lazy: the first <|/ref|> after which the rest matches.
LabelEnds(s, i) == {p \in (i + 1)..Len(s) : TailOK(s, p)}

MatchesAt(s, i) == At(s, i, REF) /\ LabelEnds(s, i) # {}

\* The match object of a match that starts at i; stop is the position after it.
MatchAt(s, i) ==
    LET p == MinOf(LabelEnds(s, i))
        b == CoordsOpen(s, p)
        e == CoordsClose(s, b)
    IN  [start |-> i,
         label |-> SubSeq(s, i + 1, p - 1),
         coords |-> SubSeq(s, b, e),
         stop |-> SkipSpace(s, e + 1) + 1]

\* finditer / sub: the non-overlapping matches, leftmost first.
RECURSIVE FindIter(_, _)
FindIter(s, pos) ==
    LET starts == {i \in pos..Len(s) : MatchesAt(s, i)}
    IN  IF starts = {} THEN <<>>
        ELSE LET m == MatchAt(s, MinOf(starts))
             IN  <<m>> \o FindIter(s, m.stop)

DET_BLOCK(s) == FindIter(s, 1)

\* ---------------------------------------------------------- ast.literal_eval
\* Python values: [t, n, items] with t in "num", "bool", "str", "dict", "list",
\* "tuple".  A dict literal is one token.
NumVal(n) == [t |-> "num", n |-> n, items |-> <<>>]
StrVal == [t |-> "str", n |-> 0, items |-> <<>>]
ListVal(xs) == [t |-> "list", n |-> 0, items |-> xs]
TupleVal(xs) == [t |-> "tuple", n |-> 0, items |-> xs]
BoolVal(n) == [t |-> "bool", n |-> n, items |-> <<>>]
DictVal == [t |-> "dict", n |-> 0, items |-> <<>>]
Fail == [ok |-> FALSE, val |-> NumVal(0), next |-> 0]

RECURSIVE ParseExpr(_, _), ParseItems(_, _, _, _, _)
\* One expression starting at toks[i].
ParseExpr(toks, i) ==
    IF i > Len(toks) THEN Fail
    ELSE IF toks[i].k = "num" THEN [ok |-> TRUE, val |-> NumVal(toks[i].v), next |-> i + 1]
    ELSE IF toks[i] = STR THEN [ok |-> TRUE, val |-> StrVal, next |-> i + 1]
    ELSE IF toks[i] = TRUE_LIT THEN [ok |-> TRUE, val |-> BoolVal(1), next |-> i + 1]
    ELSE IF toks[i] = DICT THEN [ok |-> TRUE, val |-> DictVal, next |-> i + 1]
    ELSE IF toks[i] = LB THEN ParseItems(toks, i + 1, RB, <<>>, TRUE)
    ELSE IF toks[i] = LP THEN ParseItems(toks, i + 1, RP, <<>>, TRUE)
    ELSE Fail

\* The elements of a display up to its closing bracket; comma tells whether
\* the last thing read was the opening bracket or a comma.
ParseItems(toks, i, close, acc, comma) ==
    IF i > Len(toks) THEN Fail
    ELSE IF toks[i] = close THEN
        [ok |-> TRUE,
         val |-> IF close = RB THEN ListVal(acc)
                 ELSE IF Len(acc) = 1 /\ ~comma THEN acc[1]
                 ELSE TupleVal(acc),
         next |-> i + 1]
    ELSE IF ~comma THEN
        IF toks[i] = COMMA THEN ParseItems(toks, i + 1, close, acc, TRUE) ELSE Fail
    ELSE LET e == ParseExpr(toks, i)
         IN  IF ~e.ok THEN Fail
             ELSE ParseItems(toks, e.next, close, Append(acc, e.val), FALSE)

\* ast.literal_eval(coords_str): the whole text must be one literal.
literal_eval(s) ==
    LET toks == SelectSeq(s, LAMBDA tok : ~IsSpace(tok))
        e == ParseExpr(toks, 1)
    IN  IF e.ok /\ e.next = Len(toks) + 1 THEN e ELSE Fail

\* ------------------------------------------------------------------ scaling
\* int(float(x) / 999 * dim) in IEEE-754 double arithmetic, for an integer
\* 0 <= x <= 999 and an integer 0 <= dim <= 1024.
\*
\* float(x) is exact.  q = float(x) / 999 is x/999 rounded to 53 significant
\* bits: with j the least exponent such that x * 2^j >= 999, q is a multiple
\* of 2^-(52+j), and q = x/999 + d / (999 * 2^(52+j)) where, for
\* r = x * 2^(52+j) mod 999, d = -r when 2r < 999 (rounded down) and
\* d = 999 - r otherwise (rounded up; 999 is odd, there is no tie).
RECURSIVE Pow2(_)
Pow2(n) == IF n = 0 THEN 1 ELSE 2 * Pow2(n - 1)

RECURSIVE Pow2Mod999(_)
Pow2Mod999(n) == IF n = 0 THEN 1 ELSE (2 * Pow2Mod999(n - 1)) % 999

\* Exponent j of the quotient x/999 (1 <= x <= 999).
QuotExp(x) == MinOf({j \in 0..10 : x * Pow2(j) >= 999})

\* r = x * 2^(52+j) mod 999: the remainder the division rounds away.
QuotRem(x) == (x * Pow2Mod999(52 + QuotExp(x))) % 999

ScaleRoundedUp(x, dim) == (x * dim) \div 999 + 1

\* int(q * dim), q the double above.  q * dim is rounded to 53 bits again and
\* then truncated.  With x * dim = 999 * k + t: when t > 0 the product lies
\* strictly between k and k + 1 and so does its rounding.  When t = 0 the exact
\* product is k + d * dim / (999 * 2^(52+j)); for d >= 0 it rounds to k, for
\* d < 0 it rounds to k only if it is within half a unit in the last place
\* below k, that is 4 * r * dim <= 999 * 2^(j+E) for 2^(E-1) < k <= 2^E
\* (a tie goes to k, whose significand is even); otherwise int() gives k - 1.
FloatScale(x, dim) ==
    LET k == (x * dim) \div 999
        t == (x * dim) % 999
        j == QuotExp(x)
        r == QuotRem(x)
        E == MinOf({e \in 0..11 : Pow2(e) >= k})
    IN  IF x = 0 \/ dim = 0 THEN 0
        ELSE IF t # 0 THEN k
        ELSE IF r = 0 \/ 2 * r > 999 THEN k
        ELSE IF 4 * r * dim <= 999 * Pow2(j + E) THEN k
        ELSE k - 1

\* ---------------------------------------------------------- parse_detections
IsIntOrFloatOnly(v) == v.t = "num"

\* isinstance(n, (int, float)), and float(n) succeeds: bool is a subclass of
\* int, float(True) is 1.0.
IsNum(v) == v.t \in {"num", "bool"}

CandidateOfFour(box) == box.t \in {"list", "tuple"} /\ Len(box.items) = 4

\* isinstance(box, (list, tuple)) and len(box) >= 4
IsCandidate(box) == box.t \in {"list", "tuple"} /\ Len(box.items) >= 4

\* isinstance(parsed, list) and len(parsed) == 4 and all numbers
IsFlatBox(v) == v.t = "list" /\ Len(v.items) = 4 /\ \A i \in 1..4 : IsNum(v.items[i])

\* float(box[i]) / 999 * dim raises for a box entry that is no number
\* (ValueError, TypeError) and for a dimension that is None (TypeError).
ScaleRaises(box, w, h) ==
    \/ \E i \in 1..4 : ~IsNum(box.items[i])
    \/ w = NoneDim
    \/ h = NoneDim

ScaledBox(box, w, h) ==
    <<FloatScale(box.items[1].n, w), FloatScale(box.items[2].n, h),
      FloatScale(box.items[3].n, w), FloatScale(box.items[4].n, h)>>

\* ProcessBoxes that stops after the first entry of box_coords.
OnlyFirstBox(box_coords, i, label, w, h, boxes) ==
    IF i > 1 \/ Len(box_coords) = 0 THEN [boxes |-> boxes, exc |-> FALSE]
    ELSE LET box == box_coords[1]
         IN  IF IsCandidate(box)
             THEN IF ScaleRaises(box, w, h) THEN [boxes |-> boxes, exc |-> TRUE]
                  ELSE [boxes |-> Append(boxes, [label |-> label, box |-> ScaledBox(box, w, h)]),
                        exc |-> FALSE]
             ELSE [boxes |-> boxes, exc |-> FALSE]

\* for idx, box in enumerate(box_coords): the loop from entry i on; boxes is
\* the result list so far.  exc: an exception left the loop.
RECURSIVE ProcessBoxes(_, _, _, _, _, _)
ProcessBoxes(box_coords, i, label, w, h, boxes) ==
    IF i > Len(box_coords) THEN [boxes |-> boxes, exc |-> FALSE]
    ELSE LET box == box_coords[i]
         IN  IF IsCandidate(box)
             THEN IF ScaleRaises(box, w, h) THEN [boxes |-> boxes, exc |-> TRUE]
                  ELSE ProcessBoxes(box_coords, i + 1, label, w, h,
                           Append(boxes, [label |-> label, box |-> ScaledBox(box, w, h)]))
             ELSE ProcessBoxes(box_coords, i + 1, label, w, h, boxes)

\* The body of the try statement for one match.
TryBlock(m, w, h, boxes) ==
    LET label == Strip(m.label)
        r == literal_eval(Strip(m.coords))
        parsed == r.val
    IN  IF ~r.ok THEN [boxes |-> boxes, exc |-> TRUE]
        ELSE IF IsFlatBox(parsed) THEN ProcessBoxes(<<parsed>>, 1, label, w, h, boxes)
        ELSE IF parsed.t = "list" THEN ProcessBoxes(parsed.items, 1, label, w, h, boxes)
        ELSE [boxes |-> boxes, exc |-> TRUE]

\* The try body without its except clause.
Uncaught(m, w, h, boxes) ==
    LET r == TryBlock(m, w, h, boxes) IN [boxes |-> r.boxes, raised |-> r.exc]

\* try: ... except Exception: continue
HandleBlock(m, w, h, boxes) ==
    LET r == TryBlock(m, w, h, boxes) IN [boxes |-> r.boxes, raised |-> FALSE]

\* for m in DET_BLOCK.finditer(...)
RECURSIVE ForEachMatch(_, _, _, _, _)
ForEachMatch(ms, i, w, h, boxes) ==
    IF i > Len(ms) THEN [boxes |-> boxes, raised |-> FALSE]
    ELSE LET r == HandleBlock(ms[i], w, h, boxes)
         IN  IF r.raised THEN r ELSE ForEachMatch(ms, i + 1, w, h, r.boxes)

\* text or ""
OrEmpty(s) == IF s = NoneText THEN <<>> ELSE s

parse_detections(s, w, h) == ForEachMatch(DET_BLOCK(OrEmpty(s)), 1, w, h, <<>>)

\* ------------------------------------------------------ clean_grounding_text
\* re.sub(pattern, r"\1", text): every match is replaced by its group 1.
RECURSIVE SubLabel(_, _, _)
SubLabel(s, ms, pos) ==
    IF ms = <<>> THEN SubSeq(s, pos, Len(s))
    ELSE SubSeq(s, pos, Head(ms).start - 1) \o Head(ms).label
             \o SubLabel(s, Tail(ms), Head(ms).stop)

\* re.sub(r"<\|grounding\|>", "", cleaned)
RemoveGrounding(s) == SelectSeq(s, LAMBDA tok : tok # GROUNDING)

\* re.sub raises TypeError when text is None.
clean_grounding_text(s) ==
    IF s = NoneText THEN [text |-> <<>>, raised |-> TRUE]
    ELSE [text |-> Strip(RemoveGrounding(SubLabel(s, FindIter(s, 1), 1))),
          raised |-> FALSE]

\* ------------------------------------------------------------------- inputs
\* Raw engine output is built from segments: plain text, a stand-alone
\* grounding marker, or a detection block <|ref|>label<|/ref|><|det|>coords
\* <|/det|>.  kind tells how the coords of a block are written:
\*   "nested"      [[x1,y1,x2,y2], ...]   one sub-list per box of raw
\*   "flat"        [x1,y1,x2,y2]
\*   "unbalanced"  [[x1,y1,x2               no closing bracket
\*   "unclosed"    [[x1,y1,x2,y2]           one closing bracket missing
\*   "invalid"     [[x1,y1,x,y2]]           a name among the numbers
\*   "lists"       [[...], ...]             one sub-list per entry of raw, of
\*                                          any length
\*   "numbers"     [n, ...]                 the numbers of raw[1], any length
\*   "tuple"       [(x1,y1,x2,y2), ...]     one tuple per box of raw
\*   "bool"        [[True,y1,x2,y2]]
\*   "then_number" [[x1,y1,x2,y2], 5]       raw[1], then what the name says
\*   "then_str"    [[x1,y1,x2,y2], 's']
\*   "then_dict"   [[x1,y1,x2,y2], {'k': 1}]
\*   "then_name"   [[x1,y1,x2,y2], x]
\*   "then_strbox" [[x1,y1,x2,y2], ['s',y1,x2,y2]]
\*   "str_first"   ['s', [x1,y1,x2,y2]]
\* pad: the label and the coords are surrounded by white space.
Seg(kind, label, raw, pad) == [kind |-> kind, label |-> label, raw |-> raw, pad |-> pad]

BoxA == <<999, 999, 0, 0>>
BoxB == <<63, 126, 998, 999>>
BoxC == <<0, 333, 504, 558>>

Plain == Seg("plain", "x", <<>>, FALSE)
Mark == Seg("mark", "x", <<>>, FALSE)
Segments ==
    { Plain, Mark,
      Seg("nested", "a", <<BoxA>>, FALSE),
      Seg("nested", "b", <<BoxB>>, TRUE),
      Seg("nested", "b", <<BoxC, BoxB, BoxA>>, FALSE),
      Seg("flat", "b", <<BoxC>>, FALSE),
      Seg("unbalanced", "b", <<BoxB>>, FALSE),
      Seg("unclosed", "a", <<BoxC>>, FALSE),
      Seg("invalid", "a", <<BoxB>>, FALSE) }

\* The segments of the texts that hold one block with a bracket expression of
\* another shape, alone or before a well-formed block.
ShortBox == <<10, 20>>
LongBox == <<63, 126, 998, 999, 5>>
OddBlocks ==
    { Seg("lists", "a", <<BoxA, ShortBox, LongBox>>, FALSE),
      Seg("lists", "b", <<ShortBox, BoxC>>, FALSE),
      Seg("lists", "a", <<ShortBox>>, FALSE),
      Seg("lists", "b", <<BoxB, BoxB>>, FALSE),
      Seg("numbers", "a", <<ShortBox>>, FALSE),
      Seg("numbers", "b", <<LongBox>>, FALSE),
      Seg("tuple", "a", <<BoxA, BoxB>>, FALSE),
      Seg("bool", "b", <<BoxB>>, FALSE),
      Seg("then_number", "a", <<BoxB>>, FALSE),
      Seg("then_str", "b", <<BoxA>>, FALSE),
      Seg("then_dict", "a", <<BoxC>>, FALSE),
      Seg("then_name", "b", <<BoxB>>, FALSE),
      Seg("then_strbox", "a", <<BoxA>>, FALSE),
      Seg("str_first", "b", <<BoxC>>, FALSE) }

OddKinds ==
    {"lists", "numbers", "tuple", "bool", "then_number", "then_str", "then_dict",
     "then_name", "then_strbox", "str_first"}
BlockKinds == {"nested", "flat", "unbalanced", "unclosed", "invalid"} \cup OddKinds
IsBlock(sg) == sg.kind \in BlockKinds
\* A well-formed single-box block.
IsSingle(sg) == sg.kind = "nested" /\ Len(sg.raw) = 1
\* A block whose bracket expression is unbalanced or invalid.
IsMalformed(sg) == sg.kind \in {"unbalanced", "unclosed", "invalid"}

NumList(b) == <<Num(b[1]), COMMA, Num(b[2]), COMMA, Num(b[3]), COMMA, Num(b[4])>>
BoxToks(b) == <<LB>> \o NumList(b) \o <<RB>>

\* The numbers of ns, of any length, separated by commas.
RECURSIVE Numbers(_)
Numbers(ns) ==
    IF Len(ns) = 1 THEN <<Num(ns[1])>> ELSE <<Num(ns[1]), COMMA>> \o Numbers(Tail(ns))

\* The lists (open = "[") or tuples (open = "(") of bs, separated by commas.
RECURSIVE Displays(_, _, _)
Displays(bs, open, close) ==
    <<open>> \o Numbers(bs[1]) \o <<close>>
        \o (IF Len(bs) = 1 THEN <<>> ELSE <<COMMA>> \o Displays(Tail(bs), open, close))

RECURSIVE BoxesToks(_)
BoxesToks(bs) ==
    IF Len(bs) = 1 THEN BoxToks(bs[1])
    ELSE BoxToks(bs[1]) \o <<COMMA>> \o BoxesToks(Tail(bs))

CoordsToks(sg) ==
    CASE sg.kind = "nested" -> <<LB>> \o BoxesToks(sg.raw) \o <<RB>>
      [] sg.kind = "flat" -> BoxToks(sg.raw[1])
      [] sg.kind = "unbalanced" -> <<LB, LB>> \o SubSeq(NumList(sg.raw[1]), 1, 5)
      [] sg.kind = "unclosed" -> <<LB>> \o BoxToks(sg.raw[1])
      [] sg.kind = "invalid" ->
            <<LB, LB>> \o SubSeq(NumList(sg.raw[1]), 1, 4) \o <<T("x")>>
                \o SubSeq(NumList(sg.raw[1]), 6, 7) \o <<RB, RB>>
      [] sg.kind = "lists" -> <<LB>> \o Displays(sg.raw, LB, RB) \o <<RB>>
      [] sg.kind = "numbers" -> <<LB>> \o Numbers(sg.raw[1]) \o <<RB>>
      [] sg.kind = "tuple" -> <<LB>> \o Displays(sg.raw, LP, RP) \o <<RB>>
      [] sg.kind = "bool" ->
            <<LB, LB, TRUE_LIT>> \o SubSeq(NumList(sg.raw[1]), 2, 7) \o <<RB, RB>>
      [] sg.kind = "then_number" -> <<LB>> \o BoxToks(sg.raw[1]) \o <<COMMA, Num(5), RB>>
      [] sg.kind = "then_str" -> <<LB>> \o BoxToks(sg.raw[1]) \o <<COMMA, STR, RB>>
      [] sg.kind = "then_dict" -> <<LB>> \o BoxToks(sg.raw[1]) \o <<COMMA, DICT, RB>>
      [] sg.kind = "then_name" -> <<LB>> \o BoxToks(sg.raw[1]) \o <<COMMA, T("x"), RB>>
      [] sg.kind = "then_strbox" ->
            <<LB>> \o BoxToks(sg.raw[1]) \o <<COMMA, LB, STR>>
                \o SubSeq(NumList(sg.raw[1]), 2, 7) \o <<RB, RB>>
      [] sg.kind = "str_first" -> <<LB, STR, COMMA>> \o BoxToks(sg.raw[1]) \o <<RB>>

Render(sg) ==
    CASE sg.kind = "plain" -> <<SP, T(sg.label), SP>>
      [] sg.kind = "mark" -> <<GROUNDING>>
      [] sg.kind = "stray" -> <<T(sg.label)>>
      [] OTHER ->
            IF sg.pad
            THEN <<REF, SP, T(sg.label), SP, EREF, NL, DET, SP>> \o CoordsToks(sg) \o <<SP, EDET>>
            ELSE <<REF, T(sg.label), EREF, DET>> \o CoordsToks(sg) \o <<EDET>>

RenderAll(sgs) == Flatten([i \in 1..Len(sgs) |-> Render(sgs[i])])

SegSeqs == UNION {[1..n -> Segments] : n \in 0..MaxSegs}

\* (image_width, image_height) of a call; NoneDim is None.
Dims == {<<500, 200>>, <<111, 999>>, <<NoneDim, 200>>, <<0, 1>>, <<999, NoneDim>>}

\* The largest normalized coordinate, the divisor of the scaling.
FULL_SCALE == 999

\* Image sizes, and the raw boxes [a, a, a+1, a+1] over the whole range of
\* normalized coordinates.
ScaleDims == {<<1, 1>>, <<2, 3>>, <<111, 999>>, <<500, 200>>, <<1920, 1080>>, <<2048, 37>>}
ScaleSegs == {Seg("nested", "a", <<<<a, a, a + 1, a + 1>>>>, FALSE) : a \in 0..(FULL_SCALE - 1)}

\* ------------------------------------------------------------- build_prompt
DefinedModes ==
    {"plain_ocr", "markdown", "tables_csv", "tables_md", "kv_json", "figure_chart",
     "find_ref", "layout_map", "pii_redact", "multilingual", "describe", "freeform"}
GroundingModes == {"find_ref", "layout_map", "pii_redact"}

OCR_THIS_IMAGE == T("OCR this image.")
CAPTION == T("Then add a one-paragraph description of the image.")
KV_JSON_HEAD ==
    T("Extract key fields and return strict JSON only. Use this schema (fill the values): ")
EMPTY_SCHEMA == T("{}")
TOTAL == T("Total")
LOCATE == T("Locate ")
IN_THE_IMAGE == T(" in the image.")

\* The instructions that are one literal of the source.
FixedInstruction ==
    [m \in DefinedModes \ {"kv_json", "find_ref", "freeform"} |->
        CASE m = "plain_ocr" -> T("Free OCR.")
          [] m = "markdown" -> T("Convert the document to markdown.")
          [] m = "tables_csv" -> T("Extract every table and output CSV only. Use commas, minimal quoting. If multiple tables, separate with a line containing '---'.")
          [] m = "tables_md" -> T("Extract every table as GitHub-flavored Markdown tables. Output only the tables.")
          [] m = "figure_chart" -> T("Parse the figure. First extract any numeric series as a two-column table (x,y). Then summarize the chart in 2 sentences. Output the table, then a line '---', then the summary.")
          [] m = "layout_map" -> T("Return a JSON array of blocks with fields {\"type\":[\"title\",\"paragraph\",\"table\",\"figure\"],\"box\":[x1,y1,x2,y2]}. Do not include any text content.")
          [] m = "pii_redact" -> T("Find all occurrences of emails, phone numbers, postal addresses, and IBANs. Return a JSON array of objects {label, text, box:[x1,y1,x2,y2]}.")
          [] m = "multilingual" -> T("Free OCR. Detect the language automatically and output in the same script.")
          [] m = "describe" -> T("Describe this image. Focus on visible key elements.")]

\* bool(s) of an Optional[str]
Truthy(s) == s # NoneText /\ s # <<>>

\* s.strip(): AttributeError when s is None.
StripCall(s) ==
    [text |-> IF s = NoneText THEN <<>> ELSE Strip(s), raised |-> s = NoneText]
Value(s) == [text |-> s, raised |-> FALSE]

\* schema.strip() if schema else "{}"
SchemaText(schema) == IF Truthy(schema) THEN StripCall(schema) ELSE Value(<<EMPTY_SCHEMA>>)

\* FindKey without the fallback to "Total".
FindKeyNoDefault(find_term) == StripCall(IF Truthy(find_term) THEN find_term ELSE <<>>)

\* FindKey without strip(): (find_term or "") or "Total".
FindKeyUnstripped(find_term) ==
    IF Truthy(find_term) THEN Value(find_term) ELSE Value(<<TOTAL>>)

\* (find_term or "").strip() or "Total"
FindKey(find_term) ==
    LET key == StripCall(IF Truthy(find_term) THEN find_term ELSE <<>>)
    IN  IF key.text # <<>> THEN key ELSE [text |-> <<TOTAL>>, raised |-> key.raised]

\* FreeText without the default: (user_prompt or "").strip().
FreeTextNoDefault(user_prompt) ==
    StripCall(IF Truthy(user_prompt) THEN user_prompt ELSE <<>>)

\* user_prompt.strip() if user_prompt else "OCR this image."
FreeText(user_prompt) ==
    IF Truthy(user_prompt) THEN StripCall(user_prompt) ELSE Value(<<OCR_THIS_IMAGE>>)

\* The chain without its else branch: instruction stays "".
NoElseInstruction == Value(<<>>)

\* else: instruction = "OCR this image."
ElseInstruction == Value(<<OCR_THIS_IMAGE>>)

\* Instruction with the find_ref branch taken whenever a find_term is given.
InstructionTermInAnyMode(mode, user_prompt, find_term, schema) ==
    CASE mode = "find_ref" \/ Truthy(find_term) ->
            LET key == FindKey(find_term)
            IN  [text |-> <<LOCATE, REF>> \o key.text \o <<EREF, IN_THE_IMAGE>>,
                 raised |-> key.raised]
      [] mode = "kv_json" ->
            LET st == SchemaText(schema)
            IN  [text |-> <<KV_JSON_HEAD>> \o st.text, raised |-> st.raised]
      [] mode = "freeform" -> FreeText(user_prompt)
      [] mode \in DOMAIN FixedInstruction -> Value(<<FixedInstruction[mode]>>)
      [] OTHER -> ElseInstruction

\* The if / elif chain over mode.
Instruction(mode, user_prompt, find_term, schema) ==
    CASE mode = "kv_json" ->
            LET st == SchemaText(schema)
            IN  [text |-> <<KV_JSON_HEAD>> \o st.text, raised |-> st.raised]
      [] mode = "find_ref" ->
            LET key == FindKey(find_term)
            IN  [text |-> <<LOCATE, REF>> \o key.text \o <<EREF, IN_THE_IMAGE>>,
                 raised |-> key.raised]
      [] mode = "freeform" -> FreeText(user_prompt)
      [] mode \in DOMAIN FixedInstruction -> Value(<<FixedInstruction[mode]>>)
      [] OTHER -> ElseInstruction

\* Markers with one append for the flag and one for the mode.
MarkersTwice(mode, grounding) ==
    <<<<IMAGE>>>> \o (IF grounding THEN <<<<GROUNDING>>>> ELSE <<>>)
        \o (IF mode \in GroundingModes THEN <<<<GROUNDING>>>> ELSE <<>>)

\* parts = ["<image>"], plus "<|grounding|>" when asked for or needed.
Markers(mode, grounding) ==
    IF grounding \/ mode \in GroundingModes THEN <<<<IMAGE>>, <<GROUNDING>>>> ELSE <<<<IMAGE>>>>

\* WithCaption without the exception for describe.
WithCaptionAlways(instruction, mode, include_caption) ==
    IF include_caption THEN instruction \o <<NL, CAPTION>> ELSE instruction

\* instruction + "\nThen add ..." if include_caption and mode not in {"describe"}
WithCaption(instruction, mode, include_caption) ==
    IF include_caption /\ mode # "describe" THEN instruction \o <<NL, CAPTION>> ELSE instruction

\* " ".join(parts)
RECURSIVE JoinSpaces(_)
JoinSpaces(parts) ==
    IF Len(parts) = 1 THEN parts[1] ELSE parts[1] \o <<SP>> \o JoinSpaces(Tail(parts))

\* "\n".join(parts)
RECURSIVE Join(_)
Join(parts) ==
    IF Len(parts) = 1 THEN parts[1] ELSE parts[1] \o <<NL>> \o Join(Tail(parts))

build_prompt(mode, user_prompt, grounding, find_term, schema, include_caption) ==
    LET ins == Instruction(mode, user_prompt, find_term, schema)
        parts == Append(Markers(mode, grounding), WithCaption(ins.text, mode, include_caption))
    IN  [prompt |-> IF ins.raised THEN <<>> ELSE Join(parts), raised |-> ins.raised]

\* The arguments of the calls of build_prompt.
Modes == DefinedModes \cup {"invoice", ""}
UserPrompts == {<<>>, <<SP>>, <<T("Read the stamp")>>, <<SP, T("Read the stamp"), NL>>, <<GROUNDING>>}
FindTerms ==
    {NoneText, <<>>, <<SP>>, <<T("Revenue")>>, <<SP, T("Revenue"), SP>>, <<T("Revenue"), GROUNDING>>}
Schemas == {NoneText, <<>>, <<T("{\"total\": 0}")>>, <<NL, T("{\"total\": 0}"), SP>>}

\* ------------------------------------------------------------ ocr_inference
OK == 200
SERVICE_UNAVAILABLE == 503
INTERNAL_SERVER_ERROR == 500

NO_TEXT == <<T("No text returned by model.")>>

\* The module globals model and tokenizer: None until the model is loaded.
None == "None"
Loaded == "loaded"

\* What model.infer does: it returns a str, a dict with the key "text", a
\* list of str, something else (None), or it raises.
StrRes(s) == [kind |-> "str", parts |-> <<s>>]
DictRes(s) == [kind |-> "dict", parts |-> <<s>>]
ListRes(ss) == [kind |-> "list", parts |-> ss]
OtherRes == [kind |-> "other", parts |-> <<>>]
RaisingRes == [kind |-> "raise", parts |-> <<>>]

\* result.mmd in the output directory.
NoFile == [exists |-> FALSE, content |-> <<>>]
File(s) == [exists |-> TRUE, content |-> s]

\* The uploaded file: image.read() returns or raises; Image.open reads a size
\* from what was read or raises.
Upload(read, opens, w, h) == [read |-> read, opens |-> opens, w |-> w, h |-> h]
NoUpload == Upload(FALSE, FALSE, 0, 0)

\* sep.join(ss)
RECURSIVE JoinWith(_, _)
JoinWith(ss, sep) ==
    IF ss = <<>> THEN <<>>
    ELSE IF Len(ss) = 1 THEN ss[1]
    ELSE ss[1] \o sep \o JoinWith(Tail(ss), sep)

\* tok in s
Contains(s, tok) == \E i \in 1..Len(s) : s[i] = tok

\* orig_w, orig_h = im.size, or None and None when the image cannot be opened.
ImageSize(up) == IF up.opens THEN <<up.w, up.h>> ELSE <<NoneDim, NoneDim>>

\* text, from the type of res.
Normalize(r) ==
    CASE r.kind = "str" -> Strip(r.parts[1])
      [] r.kind = "dict" -> Strip(r.parts[1])
      [] r.kind = "list" -> Strip(JoinWith(r.parts, <<NL>>))
      [] OTHER -> <<>>

FileFirst(t, f) == IF f.exists THEN Strip(f.content) ELSE t

\* if not text: the content of result.mmd when it exists.
FromFile(t, f) == IF t = <<>> /\ f.exists THEN Strip(f.content) ELSE t

\* if not text: text = "No text returned by model."
OrNoText(t) == IF t = <<>> THEN NO_TEXT ELSE t

RawText(r, f) == OrNoText(FromFile(Normalize(r), f))

ModelOnly(m, t) == m = None

\* model is None or tokenizer is None
NotLoadedYet(m, t) == m = None \/ t = None

FlagOnly(m, g) == g

\* metadata.grounding: grounding or (mode in {"find_ref","layout_map","pii_redact"})
MetadataGrounding(m, g) == g \/ m \in GroundingModes

\* What the handler does to the disk and the engine, in order: the temp file
\* is created and the upload read into it, the output directory is made, the
\* engine is called, result.mmd is read when the engine gave no text.
UntilRead == <<"create_tmp", "read">>
UntilInfer == UntilRead \o <<"mkdtemp", "infer">>
ReadFile(r, f) == IF Normalize(r) = <<>> /\ f.exists THEN <<"read_mmd">> ELSE <<>>

\* finally: os.remove(tmp_img) if tmp_img is set, shutil.rmtree(out_dir) if
\* out_dir is set.
Finally(tmp_img, out_dir) ==
    (IF tmp_img THEN <<"remove_tmp">> ELSE <<>>) \o (IF out_dir THEN <<"rmtree">> ELSE <<>>)

\* The temp paths on disk after the effects es, fs before them.
RECURSIVE FilesAfter(_, _)
FilesAfter(fs, es) ==
    IF es = <<>> THEN fs
    ELSE FilesAfter(CASE Head(es) = "create_tmp" -> fs \cup {"tmp_img"}
                      [] Head(es) = "mkdtemp" -> fs \cup {"out_dir"}
                      [] Head(es) = "remove_tmp" -> fs \ {"tmp_img"}
                      [] Head(es) = "rmtree" -> fs \ {"out_dir"}
                      [] OTHER -> fs,
                    Tail(es))

DimAsIs(d) == d

\* orig_w or 1
OrOne(d) == IF d = NoneDim \/ d = 0 THEN 1 ELSE d

\* parse_detections(text, orig_w or 1, orig_h or 1) if the text holds
\* <|det|> or <|ref|>, else []
Detect(t, w, h) ==
    IF Contains(t, DET) \/ Contains(t, REF)
    THEN parse_detections(t, OrOne(w), OrOne(h))
    ELSE [boxes |-> <<>>, raised |-> FALSE]

DisplayIfRef(t) ==
    IF Contains(t, REF) THEN clean_grounding_text(t) ELSE [text |-> t, raised |-> FALSE]

\* clean_grounding_text(text) if the text holds <|ref|> or <|grounding|>,
\* else text
Display(t) ==
    IF Contains(t, REF) \/ Contains(t, GROUNDING)
    THEN clean_grounding_text(t)
    ELSE [text |-> t, raised |-> FALSE]

\* if not display_text and boxes: ", ".join([b["label"] for b in boxes])
LabelFallback(d, bs) ==
    IF d = <<>> /\ bs # <<>>
    THEN JoinWith([i \in 1..Len(bs) |-> bs[i].label], <<COMMA, SP>>)
    ELSE d

\* The response: the fields of the JSON envelope that depend on the request,
\* or the status of the HTTPException.
Response(status, success, text, raw_text, boxes, dims, mode, grounding) ==
    [status |-> status, success |-> success, text |-> text, raw_text |-> raw_text,
     boxes |-> boxes, image_dims |-> dims, mode |-> mode, grounding |-> grounding]
ErrorResponse(status) ==
    Response(status, FALSE, <<>>, <<>>, <<>>, <<NoneDim, NoneDim>>, "", FALSE)
NoResponse == ErrorResponse(0)

\* The texts the engine returns, as segments, and the requests.
NoLabel == Seg("nested", " ", <<BoxA>>, FALSE)
\* A structural marker outside any block.
Stray(marker) == Seg("stray", marker, <<>>, FALSE)
NoLabels == Seg("nested", " ", <<BoxA, BoxB>>, TRUE)
EngineSegSeqs ==
    { <<>>, <<Plain>>, <<Mark>>, <<Mark, Plain>>,
      <<Seg("nested", "a", <<BoxA>>, FALSE)>>,
      <<Seg("nested", "b", <<BoxB>>, TRUE)>>,
      <<Plain, Seg("nested", "b", <<BoxC, BoxB, BoxA>>, FALSE)>>,
      <<Seg("unbalanced", "b", <<BoxB>>, FALSE)>>,
      <<NoLabel>>, <<NoLabels>>,
      <<Plain, Stray("<|det|>")>>, <<Stray("<|ref|>"), Plain>>, <<Stray("<|/ref|>"), Plain>>,
      <<Stray("<|det|>"), Plain, Stray("<|/det|>")>> }
EngineResults(sgs) ==
    {StrRes(RenderAll(sgs))}
        \cup (IF sgs = <<Plain>>
              THEN {DictRes(RenderAll(sgs)), ListRes(<<Render(Plain), Render(Mark)>>),
                    OtherRes, RaisingRes}
              ELSE {})
ResultFiles(r) ==
    IF r.kind # "raise" /\ Normalize(r) = <<>>
    THEN {NoFile, File(<<NL>>), File(Render(Plain)), File(<<NL>> \o Render(NoLabel))}
    ELSE {NoFile, File(Render(Plain))}
Uploads ==
    { Upload(TRUE, TRUE, 500, 200), Upload(TRUE, TRUE, 111, 999), Upload(TRUE, TRUE, 0, 1),
      Upload(TRUE, TRUE, 500, 0), Upload(TRUE, FALSE, 0, 0), Upload(FALSE, FALSE, 0, 0) }
RequestModes == {"plain_ocr", "find_ref", "layout_map", "pii_redact", "freeform"}
RequestPrompts(m) == IF m = "freeform" THEN {<<>>, <<GROUNDING>>} ELSE {<<>>}

\* --------------------------------------------------------- concurrent calls
\* Number of request handlers calling the three functions at the same time.
NumProcs == 2
Procs == 1..NumProcs

\* A call of build_prompt (mode, grounding, the other arguments at their
\* defaults), of parse_detections (text, image_width, image_height) or of
\* clean_grounding_text (text).
Call(fn, s, w, h, m, g) ==
    [fn |-> fn, text |-> s, image_width |-> w, image_height |-> h, mode |-> m, grounding |-> g]
Calls ==
    { Call("build_prompt", <<>>, 1, 1, "find_ref", FALSE),
      Call("build_prompt", <<>>, 1, 1, "describe", TRUE),
      Call("build_prompt", <<>>, 1, 1, "markdown", FALSE),
      Call("parse_detections", Render(Seg("nested", "a", <<BoxA>>, FALSE)), 500, 200, "", FALSE),
      Call("parse_detections",
           RenderAll(<<Plain, Seg("nested", "b", <<BoxC, BoxB, BoxA>>, FALSE)>>), 111, 999, "",
           FALSE),
      Call("clean_grounding_text",
           RenderAll(<<Mark, Seg("nested", "a", <<BoxA>>, FALSE), Plain>>), 1, 1, "", FALSE),
      Call("clean_grounding_text", Render(Seg("nested", "b", <<BoxB>>, TRUE)), 1, 1, "", FALSE) }

OneFrame(p) == 1

\* The frame that holds the local variables of the call of handler p: every
\* call has its own parts, instruction, boxes and cleaned.
FrameOf(p) == p

\* The statements of a call that assign or extend its local accumulator
\* (parts, boxes, cleaned), in order; acc is the accumulator before the
\* statement.
Statements(c) ==
    CASE c.fn = "build_prompt" -> 3
      [] c.fn = "parse_detections" -> 1 + Len(DET_BLOCK(c.text))
      [] OTHER -> 2
Statement(c, n, acc) ==
    CASE c.fn = "build_prompt" ->
            IF n = 1 THEN <<<<IMAGE>>>>
            ELSE IF n = 2 THEN acc \o Tail(Markers(c.mode, c.grounding))
            ELSE Append(acc, WithCaption(Instruction(c.mode, <<>>, NoneText, NoneText).text,
                                         c.mode, FALSE))
      [] c.fn = "parse_detections" ->
            IF n = 1 THEN <<>>
            ELSE HandleBlock(DET_BLOCK(c.text)[n - 1], c.image_width, c.image_height, acc).boxes
      [] OTHER ->
            IF n = 1 THEN SubLabel(c.text, FindIter(c.text, 1), 1) ELSE RemoveGrounding(acc)

\* The value of the return statement.
Returned(c, acc) ==
    CASE c.fn = "build_prompt" -> Join(acc)
      [] c.fn = "parse_detections" -> acc
      [] OTHER -> Strip(acc)

Pending == [done |-> FALSE, value |-> <<>>]

\* -------------------------------------------------------------------- state
VARIABLES
    model_loaded,   \* the flag of the Flask service (deepseek_ocr_service.py);
                    \* main.py has no such flag, there it stays FALSE
    call,           \* the call, or the endpoint, each handler serves
    frame,          \* the local accumulator of each frame
    pos,            \* the number of statements each call has executed
    ret,            \* what each call returned
    model,          \* the module globals
    tokenizer,
    upload,         \* the request's image
    res,            \* what model.infer does when called
    mmd,            \* result.mmd, when the engine wrote it
    files,          \* the temp file and directory left on disk
    effects,        \* what ocr_inference did to the disk and the engine, in order
    response,       \* what ocr_inference answered
    segs,           \* the segments the raw text is made of
    text,           \* the raw text (tokens), or NoneText
    image_width,
    image_height,
    mode,           \* the arguments of build_prompt
    user_prompt,
    grounding,
    find_term,
    schema,
    include_caption,
    pc,             \* "start", "parsed", "cleaned": a text is parsed and cleaned;
                    \* "build", "built": a prompt is built;
                    \* "request", "responded": a request is served;
                    \* "calls": handlers call the functions concurrently
    boxes,          \* what parse_detections returned
    display_text,   \* what clean_grounding_text returned
    prompt,         \* what build_prompt returned
    raised          \* the calls that let an exception escape

textArgs == <<segs, text, image_width, image_height>>
promptArgs == <<mode, user_prompt, grounding, find_term, schema, include_caption>>
requestVars == <<model, tokenizer, model_loaded, upload, res, mmd>>
procVars == <<call, frame, pos, ret>>
vars == <<textArgs, promptArgs, pc, boxes, display_text, prompt, raised, requestVars, files,
          effects, response, procVars>>

\* The form defaults of ocr_inference.
DefaultPromptArgs ==
    /\ mode = "plain_ocr"
    /\ user_prompt = <<>>
    /\ grounding = FALSE
    /\ find_term = NoneText
    /\ schema = NoneText
    /\ include_caption = FALSE

NoResults ==
    /\ boxes = <<>>
    /\ display_text = <<>>
    /\ prompt = <<>>
    /\ raised = {}
    /\ files = {}
    /\ effects = <<>>
    /\ response = NoResponse
    /\ call = <<>>
    /\ frame = <<>>
    /\ pos = <<>>
    /\ ret = <<>>

\* The model is loaded and no request is being served.
NoRequest ==
    /\ model = Loaded
    /\ tokenizer = Loaded
    /\ model_loaded = FALSE
    /\ upload = NoUpload
    /\ res = OtherRes
    /\ mmd = NoFile

\* A raw text and image dimensions, to be parsed and cleaned.
InitText ==
    /\ segs \in SegSeqs
    /\ text \in {RenderAll(segs)} \cup (IF segs = <<>> THEN {NoneText} ELSE {})
    /\ \E d \in Dims : image_width = d[1] /\ image_height = d[2]
    /\ DefaultPromptArgs
    /\ pc = "start"
    /\ NoResults
    /\ NoRequest

\* A raw text of one block from OddBlocks, alone or followed by a well-formed
\* single-box block, and image dimensions.
OddSegSeqs ==
    {<<sg>> : sg \in OddBlocks} \cup {<<sg, Seg("nested", "a", <<BoxA>>, FALSE)>> : sg \in OddBlocks}

InitOdd ==
    /\ segs \in OddSegSeqs
    /\ text = RenderAll(segs)
    /\ \E d \in Dims : image_width = d[1] /\ image_height = d[2]
    /\ DefaultPromptArgs
    /\ pc = "start"
    /\ NoResults
    /\ NoRequest

\* The arguments of a prompt to be built.
InitPrompt ==
    /\ segs = <<>>
    /\ text = <<>>
    /\ image_width = 1
    /\ image_height = 1
    /\ mode \in Modes
    /\ user_prompt \in UserPrompts
    /\ grounding \in BOOLEAN
    /\ find_term \in FindTerms
    /\ schema \in Schemas
    /\ include_caption \in BOOLEAN
    /\ pc = "build"
    /\ NoResults
    /\ NoRequest

\* A request to /api/ocr: the form fields, the upload, the state of the
\* globals, and what the engine will do.
InitOcr ==
    /\ model \in {None, Loaded}
    /\ tokenizer \in {None, Loaded}
    /\ model_loaded = FALSE
    /\ segs \in (IF NotLoadedYet(model, tokenizer) THEN {<<Plain>>} ELSE EngineSegSeqs)
    /\ res \in EngineResults(segs)
    /\ mmd \in ResultFiles(res)
    /\ upload \in Uploads
    /\ mode \in RequestModes
    /\ grounding \in BOOLEAN
    /\ user_prompt \in RequestPrompts(mode)
    /\ find_term = NoneText
    /\ schema = NoneText
    /\ include_caption = FALSE
    /\ text = <<>>
    /\ image_width = NoneDim
    /\ image_height = NoneDim
    /\ pc = "request"
    /\ NoResults

Init == InitText \/ InitOdd \/ InitPrompt

\* boxes = parse_detections(text, image_width, image_height)
ParseDetections ==
    /\ pc = "start"
    /\ LET r == parse_detections(text, image_width, image_height)
       IN  /\ boxes' = r.boxes
           /\ raised' = IF r.raised THEN raised \cup {"parse_detections"} ELSE raised
    /\ pc' = "parsed"
    /\ UNCHANGED <<textArgs, promptArgs, display_text, prompt, requestVars, files, effects,
                 response, procVars>>

\* display_text = clean_grounding_text(text)
CleanGroundingText ==
    /\ pc = "parsed"
    /\ LET r == clean_grounding_text(text)
       IN  /\ display_text' = r.text
           /\ raised' = IF r.raised THEN raised \cup {"clean_grounding_text"} ELSE raised
    /\ pc' = "cleaned"
    /\ UNCHANGED <<textArgs, promptArgs, boxes, prompt, requestVars, files, effects,
                 response, procVars>>

\* prompt = build_prompt(mode, user_prompt, grounding, find_term, schema, include_caption)
BuildPrompt ==
    /\ pc = "build"
    /\ LET r == build_prompt(mode, user_prompt, grounding, find_term, schema, include_caption)
       IN  /\ prompt' = r.prompt
           /\ raised' = IF r.raised THEN raised \cup {"build_prompt"} ELSE raised
    /\ pc' = "built"
    /\ UNCHANGED <<textArgs, promptArgs, boxes, display_text, requestVars, files, effects,
                 response, procVars>>

Next == ParseDetections \/ CleanGroundingText \/ BuildPrompt

Spec == Init /\ [][Next]_vars

\* ocr_inference, from the request to the response.  The locals prompt_text,
\* orig_w, orig_h, text, boxes and display_text are the variables prompt,
\* image_width, image_height, text, boxes and display_text.
NotLoaded ==
    /\ NotLoadedYet(model, tokenizer)
    /\ response' = ErrorResponse(SERVICE_UNAVAILABLE)
    /\ UNCHANGED <<text, image_width, image_height, boxes, display_text, prompt, files,
                   effects>>

\* image.read() raises: the temp file is created and tmp_img is not yet set,
\* so that the finally clause does not remove it.
ReadFails ==
    /\ ~NotLoadedYet(model, tokenizer)
    /\ ~upload.read
    /\ prompt' = build_prompt(mode, user_prompt, grounding, find_term, schema,
                              include_caption).prompt
    /\ effects' = UntilRead \o Finally(FALSE, FALSE)
    /\ files' = FilesAfter(files, effects')
    /\ response' = ErrorResponse(INTERNAL_SERVER_ERROR)
    /\ UNCHANGED <<text, image_width, image_height, boxes, display_text>>

\* model.infer raises: the temp file and the output directory are removed.
InferFails ==
    /\ ~NotLoadedYet(model, tokenizer)
    /\ upload.read
    /\ res.kind = "raise"
    /\ prompt' = build_prompt(mode, user_prompt, grounding, find_term, schema,
                              include_caption).prompt
    /\ image_width' = ImageSize(upload)[1]
    /\ image_height' = ImageSize(upload)[2]
    /\ effects' = UntilInfer \o Finally(TRUE, TRUE)
    /\ files' = FilesAfter(files, effects')
    /\ response' = ErrorResponse(INTERNAL_SERVER_ERROR)
    /\ UNCHANGED <<text, boxes, display_text>>

Answers ==
    /\ ~NotLoadedYet(model, tokenizer)
    /\ upload.read
    /\ res.kind # "raise"
    /\ LET size == ImageSize(upload)
           t == RawText(res, mmd)
           b == Detect(t, size[1], size[2])
           d == Display(t)
           shown == LabelFallback(d.text, b.boxes)
       IN  /\ prompt' = build_prompt(mode, user_prompt, grounding, find_term, schema,
                                     include_caption).prompt
           /\ image_width' = size[1]
           /\ image_height' = size[2]
           /\ text' = t
           /\ boxes' = b.boxes
           /\ display_text' = shown
           /\ response' =
                IF b.raised \/ d.raised
                THEN ErrorResponse(INTERNAL_SERVER_ERROR)
                ELSE Response(OK, TRUE, shown, t, b.boxes, size, mode,
                              MetadataGrounding(mode, grounding))
    /\ effects' = UntilInfer \o ReadFile(res, mmd) \o Finally(TRUE, TRUE)
    /\ files' = FilesAfter(files, effects')

OcrInference ==
    /\ pc = "request"
    /\ pc' = "responded"
    /\ NotLoaded \/ ReadFails \/ InferFails \/ Answers
    /\ UNCHANGED <<segs, promptArgs, raised, requestVars, procVars>>

NextOcr == OcrInference

\* parse_detections over the range of the normalized coordinates.
InitScale ==
    /\ \E sg \in ScaleSegs : segs = <<sg>>
    /\ text = RenderAll(segs)
    /\ \E d \in ScaleDims : image_width = d[1] /\ image_height = d[2]
    /\ DefaultPromptArgs
    /\ pc = "start"
    /\ NoResults
    /\ NoRequest

NextScale == ParseDetections

SpecScale == InitScale /\ [][NextScale]_vars

\* The Flask service (deepseek_ocr_service.py).  The process was started as
\* __main__, which loads the model before it serves, or the module was
\* imported by a WSGI server, which does not; then request threads serve /ocr
\* and /warmup, one statement at a time.  effects lists the loads that
\* returned and the setting of the flag.
Preloaded == <<"tokenizer", "model", "model_loaded">>
Endpoints == {"/ocr", "/warmup"}

InitLoad ==
    /\ model_loaded \in BOOLEAN
    /\ model = (IF model_loaded THEN Loaded ELSE None)
    /\ tokenizer = (IF model_loaded THEN Loaded ELSE None)
    /\ effects = (IF model_loaded THEN Preloaded ELSE <<>>)
    /\ call \in [Procs -> Endpoints]
    /\ frame = [p \in Procs |-> <<>>]
    /\ pos = [p \in Procs |-> "request"]
    /\ ret = [p \in Procs |-> 0]
    /\ segs = <<>>
    /\ text = <<>>
    /\ image_width = 1
    /\ image_height = 1
    /\ DefaultPromptArgs
    /\ pc = "serving"
    /\ boxes = <<>>
    /\ display_text = <<>>
    /\ prompt = <<>>
    /\ raised = {}
    /\ files = {}
    /\ response = NoResponse
    /\ upload = NoUpload
    /\ res = OtherRes
    /\ mmd = NoFile

\* What no statement of the service changes.
Serving ==
    /\ pc = "serving"
    /\ UNCHANGED <<textArgs, promptArgs, pc, boxes, display_text, prompt, raised, upload, res,
                   mmd, files, response, call, frame>>

Goto(p, where) == pos' = [pos EXCEPT ![p] = where]

\* ocr_endpoint, warmup: if not model_loaded: load_model()
CheckLoaded(p) ==
    /\ Serving
    /\ pos[p] = "request"
    /\ Goto(p, IF model_loaded THEN "serve" ELSE "load_model")
    /\ UNCHANGED <<model, tokenizer, model_loaded, effects, ret>>

\* load_model: if model_loaded: return
EnterLoadModel(p) ==
    /\ Serving
    /\ pos[p] = "load_model"
    /\ Goto(p, IF model_loaded THEN "serve" ELSE "tokenizer")
    /\ UNCHANGED <<model, tokenizer, model_loaded, effects, ret>>

\* tokenizer = AutoTokenizer.from_pretrained(...)
LoadTokenizer(p) ==
    /\ Serving
    /\ pos[p] = "tokenizer"
    /\ tokenizer' = Loaded
    /\ effects' = Append(effects, "tokenizer")
    /\ Goto(p, "model")
    /\ UNCHANGED <<model, model_loaded, ret>>

\* model = AutoModel.from_pretrained(...); model = model.eval()
LoadModel(p) ==
    /\ Serving
    /\ pos[p] = "model"
    /\ model' = Loaded
    /\ effects' = Append(effects, "model")
    /\ Goto(p, "flag")
    /\ UNCHANGED <<tokenizer, model_loaded, ret>>

\* model_loaded = True
SetLoaded(p) ==
    /\ Serving
    /\ pos[p] = "flag"
    /\ model_loaded' = TRUE
    /\ effects' = Append(effects, "model_loaded")
    /\ Goto(p, "serve")
    /\ UNCHANGED <<model, tokenizer, ret>>

\* from_pretrained raises: load_model logs and raises again, the endpoint
\* answers 500.
LoadFails(p) ==
    /\ Serving
    /\ pos[p] \in {"tokenizer", "model"}
    /\ ret' = [ret EXCEPT ![p] = INTERNAL_SERVER_ERROR]
    /\ Goto(p, "done")
    /\ UNCHANGED <<model, tokenizer, model_loaded, effects>>

\* The rest of the endpoint: the answer.
Respond(p) ==
    /\ Serving
    /\ pos[p] = "serve"
    /\ ret' = [ret EXCEPT ![p] = OK]
    /\ Goto(p, "done")
    /\ UNCHANGED <<model, tokenizer, model_loaded, effects>>

NextLoad ==
    \E p \in Procs :
        \/ CheckLoaded(p)
        \/ EnterLoadModel(p)
        \/ LoadTokenizer(p)
        \/ LoadModel(p)
        \/ SetLoaded(p)
        \/ LoadFails(p)
        \/ Respond(p)

SpecLoad == InitLoad /\ [][NextLoad]_vars

SpecOcr == InitOcr /\ [][NextOcr]_vars

\* Handlers that call the three functions at the same time, one statement at
\* a time.
InitCalls ==
    /\ call \in [Procs -> Calls]
    /\ frame = [f \in Procs |-> <<>>]
    /\ pos = [p \in Procs |-> 0]
    /\ ret = [p \in Procs |-> Pending]
    /\ segs = <<>>
    /\ text = <<>>
    /\ image_width = 1
    /\ image_height = 1
    /\ DefaultPromptArgs
    /\ pc = "calls"
    /\ boxes = <<>>
    /\ display_text = <<>>
    /\ prompt = <<>>
    /\ raised = {}
    /\ files = {}
    /\ effects = <<>>
    /\ response = NoResponse
    /\ NoRequest

Execute(p) ==
    /\ pos[p] < Statements(call[p])
    /\ frame' = [frame EXCEPT ![FrameOf(p)] = Statement(call[p], pos[p] + 1, @)]
    /\ pos' = [pos EXCEPT ![p] = @ + 1]
    /\ UNCHANGED <<call, ret>>

Return(p) ==
    /\ pos[p] = Statements(call[p])
    /\ ~ret[p].done
    /\ ret' = [ret EXCEPT ![p] = [done |-> TRUE, value |-> Returned(call[p], frame[FrameOf(p)])]]
    /\ UNCHANGED <<call, frame, pos>>

\* The next statement of the call of handler p.
Step(p) ==
    /\ pc = "calls"
    /\ Execute(p) \/ Return(p)
    /\ UNCHANGED <<textArgs, promptArgs, pc, boxes, display_text, prompt, raised, requestVars,
                   files, effects, response>>

BuildPromptStep(p) ==
    /\ call[p].fn = "build_prompt"
    /\ Step(p)
ParseDetectionsStep(p) ==
    /\ call[p].fn = "parse_detections"
    /\ Step(p)
CleanGroundingTextStep(p) ==
    /\ call[p].fn = "clean_grounding_text"
    /\ Step(p)

NextCalls ==
    \E p \in Procs : BuildPromptStep(p) \/ ParseDetectionsStep(p) \/ CleanGroundingTextStep(p)

SpecCalls == InitCalls /\ [][NextCalls]_vars

\* ------------------------------------------------------------------ claims
Parsed == pc \in {"parsed", "cleaned"}
Cleaned == pc = "cleaned"
KnownDims == image_width # NoneDim /\ image_height # NoneDim
Blocks(sgs) == SelectSeq(sgs, IsBlock)
Words(s) == SelectSeq(s, LAMBDA tok : ~IsSpace(tok))

\* A raw text made of well-formed single-box blocks and plain text only.
SingleBlockText ==
    /\ text # NoneText
    /\ \A i \in 1..Len(segs) : IsSingle(segs[i]) \/ segs[i] = Plain

\* C1: a raw text made of N well-formed single-box blocks, possibly separated
\* by plain text, yields exactly N detections, the i-th with the label of the
\* i-th block, and the coords group of the i-th match is exactly the bracket
\* expression of the i-th block.
C1_SingleBlocksAllParsed ==
    (Parsed /\ KnownDims /\ SingleBlockText) =>
        LET bl == Blocks(segs)
            ms == DET_BLOCK(text)
        IN  /\ Len(boxes) = Len(bl)
            /\ \A i \in 1..Len(boxes) : boxes[i].label = <<T(bl[i].label)>>
            /\ Len(ms) = Len(bl)
            /\ \A i \in 1..Len(ms) : ms[i].coords = CoordsToks(bl[i])

\* C2: for a raw text made of N well-formed single-box blocks and plain text,
\* the cleaned text holds, white space aside, exactly the label of each block
\* and the words of the plain text, in the order of the raw text: every label
\* once, the plain text kept, no structural token and no coordinate left.
C2_CleanKeepsLabelsAndText ==
    (Cleaned /\ SingleBlockText) =>
        Words(display_text) = [i \in 1..Len(segs) |-> T(segs[i].label)]

\* C3: a raw text of one well-formed block and one block with an unbalanced or
\* invalid bracket expression, in either order, yields exactly the detection
\* of the well-formed block, and nothing is raised.
C3_MalformedBlockIsolated ==
    \A i, j \in 1..2 :
        (Parsed /\ KnownDims /\ Len(segs) = 2 /\ i # j
            /\ IsSingle(segs[i]) /\ IsMalformed(segs[j])) =>
                /\ "parse_detections" \notin raised
                /\ Len(boxes) = 1
                /\ boxes[1].label = <<T(segs[i].label)>>

ExpectedBox(raw) ==
    <<FloatScale(raw[1], image_width), FloatScale(raw[2], image_height),
      FloatScale(raw[3], image_width), FloatScale(raw[4], image_height)>>

\* C5: the only block of a text, when its expression is a list of k
\* four-number lists, yields k detections with the block's label, in the order
\* of the sub-lists; when it is one flat list of 4 numbers, 1 detection.
C5_BoxesPerBlock ==
    (Parsed /\ KnownDims /\ text # NoneText /\ Len(Blocks(segs)) = 1) =>
        LET sg == Blocks(segs)[1]
        IN  sg.kind \in {"nested", "flat"} =>
                /\ Len(boxes) = Len(sg.raw)
                /\ \A i \in 1..Len(boxes) :
                        /\ boxes[i].label = <<T(sg.label)>>
                        /\ boxes[i].box = ExpectedBox(sg.raw[i])

C5_Witness ==
    /\ Parsed
    /\ KnownDims
    /\ Len(segs) = 1 /\ segs[1].kind = "nested" /\ Len(segs[1].raw) = 3
    /\ Len(boxes) = 3
    /\ boxes[1].box # boxes[2].box

Floor999(x, dim) == (x * dim) \div 999

\* C6: every detection's box is [floor(x1/999*width), floor(y1/999*height),
\* floor(x2/999*width), floor(y2/999*height)] of its raw box.
C6_ExactFloorScaling ==
    (Parsed /\ KnownDims /\ Len(segs) = 1 /\ segs[1].kind \in {"nested", "flat"}) =>
        \A i \in 1..Len(boxes) :
            boxes[i].box =
                <<Floor999(segs[1].raw[i][1], image_width),
                  Floor999(segs[1].raw[i][2], image_height),
                  Floor999(segs[1].raw[i][3], image_width),
                  Floor999(segs[1].raw[i][4], image_height)>>

Built == pc = "built"
Grounded == grounding \/ mode \in GroundingModes
CaptionEmitted == include_caption /\ mode # "describe"
\* The prompt after its markers.
InstructionPart(p) == SubSeq(p, IF Grounded THEN 5 ELSE 3, Len(p))
DefaultParameters ==
    user_prompt = <<>> /\ find_term = NoneText /\ schema = NoneText /\ ~include_caption

\* The mode -> instruction table of the specification, {schema} replaced by {}
\* and {term} by Total.  The table describes the entries of layout_map and
\* pii_redact without giving their text; they are taken as the literals of
\* the source, which fit the description.
InstructionTable ==
    [m \in DefinedModes |->
        CASE m = "plain_ocr" -> <<T("Free OCR.")>>
          [] m = "markdown" -> <<T("Convert the document to markdown.")>>
          [] m = "tables_csv" -> <<T("Extract every table and output CSV only. Use commas, minimal quoting. If multiple tables, separate with a line containing '---'.")>>
          [] m = "tables_md" -> <<T("Extract every table as GitHub-flavored Markdown tables. Output only the tables.")>>
          [] m = "kv_json" -> <<T("Extract key fields and return strict JSON only. Use this schema (fill the values): "), T("{}")>>
          [] m = "figure_chart" -> <<T("Parse the figure. First extract any numeric series as a two-column table (x,y). Then summarize the chart in 2 sentences. Output the table, then a line '---', then the summary.")>>
          [] m = "find_ref" -> <<T("Locate "), REF, T("Total"), EREF, T(" in the image.")>>
          [] m = "multilingual" -> <<T("Free OCR. Detect the language automatically and output in the same script.")>>
          [] m = "describe" -> <<T("Describe this image. Focus on visible key elements.")>>
          [] m = "freeform" -> <<T("OCR this image.")>>
          [] OTHER -> <<FixedInstruction[m]>>]

\* C7: for each of the 12 defined modes called with default parameters, the
\* instruction segment of the prompt equals the mode's entry of the table.
C7_DefaultInstructions ==
    (Built /\ mode \in DefinedModes /\ DefaultParameters) =>
        InstructionPart(prompt) = InstructionTable[mode]

C7_Witness ==
    /\ Built
    /\ mode = "find_ref"
    /\ DefaultParameters
    /\ prompt = <<IMAGE, NL, GROUNDING, NL, T("Locate "), REF, T("Total"), EREF, T(" in the image.")>>

\* C8: for every mode outside the 12 defined modes build_prompt raises
\* nothing and returns a prompt whose instruction is "OCR this image.".
C8_UnknownModeFallsBack ==
    (Built /\ mode \notin DefinedModes) =>
        /\ "build_prompt" \notin raised
        /\ InstructionPart(prompt) =
              <<T("OCR this image.")>> \o (IF include_caption THEN <<NL, CAPTION>> ELSE <<>>)

C8_Witness ==
    /\ Built
    /\ mode = "invoice"
    /\ user_prompt = <<T("Read the stamp")>>
    /\ prompt = <<IMAGE, NL, T("OCR this image.")>>

\* C9 as stated: the grounding marker appears in the prompt exactly once when
\* the grounding flag is set or the mode is find_ref, layout_map or pii_redact,
\* and not at all otherwise.
C9_AtMostOneMarker ==
    Built => Count(prompt, GROUNDING) = (IF Grounded THEN 1 ELSE 0)

\* The caller's text that the mode puts into the instruction.
CallerText ==
    CASE mode = "freeform" -> user_prompt
      [] mode = "find_ref" -> find_term
      [] mode = "kv_json" -> schema
      [] OTHER -> <<>>

\* C9, amended: build_prompt emits the grounding marker itself exactly once,
\* as the part right after <image>, when the grounding flag is set or the mode
\* is find_ref, layout_map or pii_redact (also when both hold), and not at all
\* otherwise; every other marker of the prompt is one the caller's own text
\* (free prompt, find_term, schema) holds.
C9_OneEmittedMarker ==
    Built =>
        /\ Count(prompt, GROUNDING) =
              (IF Grounded THEN 1 ELSE 0) + Count(CallerText, GROUNDING)
        /\ Grounded => prompt[3] = GROUNDING

C9_Witness ==
    /\ Built
    /\ mode = "layout_map"
    /\ grounding
    /\ Count(prompt, GROUNDING) = 1

\* C10: every prompt is the image marker, the grounding marker when emitted,
\* the instruction, and the caption suffix when emitted, in this order, each
\* separated from the next by exactly one newline.
C10_PartsInOrder ==
    Built =>
        prompt = (IF Grounded THEN <<IMAGE, NL, GROUNDING, NL>> ELSE <<IMAGE, NL>>)
                    \o Instruction(mode, user_prompt, find_term, schema).text
                    \o (IF CaptionEmitted THEN <<NL, CAPTION>> ELSE <<>>)

C10_Witness ==
    /\ Built
    /\ grounding
    /\ include_caption
    /\ prompt = <<IMAGE, NL, GROUNDING, NL,
                  T("Convert the document to markdown."), NL, CAPTION>>

\* The prompt of the same call with include_caption false.
PromptWithoutCaption ==
    build_prompt(mode, user_prompt, grounding, find_term, schema, FALSE).prompt

\* C11: the caption suffix is appended, on a new line after the instruction,
\* if and only if include_caption is set and the mode is not describe; in
\* describe mode the prompt is the same with include_caption true or false.
C11_CaptionIffAsked ==
    Built =>
        /\ Count(prompt, CAPTION) = (IF include_caption /\ mode # "describe" THEN 1 ELSE 0)
        /\ (include_caption /\ mode # "describe") =>
                prompt = PromptWithoutCaption
                            \o <<NL, T("Then add a one-paragraph description of the image.")>>
        /\ mode = "describe" => prompt = PromptWithoutCaption

C11_Witness ==
    /\ Built
    /\ mode = "describe"
    /\ include_caption
    /\ ~grounding
    /\ prompt = <<IMAGE, NL, T("Describe this image. Focus on visible key elements.")>>

\* The instruction, without the caption suffix.
InstructionOnly(p) ==
    LET part == InstructionPart(p)
    IN  IF CaptionEmitted THEN SubSeq(part, 1, Len(part) - 2) ELSE part

\* C12: in find_ref mode the instruction is "Locate <|ref|>T<|/ref|> in the
\* image.", T the find_term without its surrounding white space, and Total
\* when find_term is absent, empty or only white space.
C12_FindRefInstruction ==
    (Built /\ mode = "find_ref") =>
        LET term == IF find_term = NoneText \/ Words(find_term) = <<>>
                    THEN <<T("Total")>>
                    ELSE Strip(find_term)
        IN  /\ InstructionOnly(prompt) =
                    <<T("Locate "), REF>> \o term \o <<EREF, T(" in the image.")>>
            /\ find_term \in {<<T("Revenue")>>, <<SP, T("Revenue"), SP>>} =>
                    InstructionOnly(prompt) =
                        <<T("Locate "), REF, T("Revenue"), EREF, T(" in the image.")>>

C12_Witness ==
    /\ Built
    /\ mode = "find_ref"
    /\ find_term = <<SP, T("Revenue"), SP>>
    /\ ~include_caption
    /\ prompt = <<IMAGE, NL, GROUNDING, NL,
                  T("Locate "), REF, T("Revenue"), EREF, T(" in the image.")>>

FullSpansText ==
    /\ text # NoneText
    /\ \A i \in 1..Len(segs) : IsBlock(segs[i]) => segs[i].kind \in {"nested", "flat"}

\* What is left of a segment: of a block its trimmed label, of a stand-alone
\* grounding marker nothing, of plain text all of it.
Kept(sg) ==
    IF IsBlock(sg) THEN <<T(sg.label)>>
    ELSE IF sg = Mark THEN <<>>
    ELSE Render(sg)

\* C15: the cleaned text is the raw text with every full span replaced by its
\* label trimmed of surrounding white space, every stand-alone grounding
\* marker removed, and leading and trailing white space removed.
C15_SpansBecomeTrimmedLabels ==
    (Cleaned /\ FullSpansText) =>
        display_text = Strip(Flatten([i \in 1..Len(segs) |-> Kept(segs[i])]))

\* ---- One block, other shapes of the bracket expression ----

\* The text is one block of OddBlocks, alone or before one well-formed block.
OddText == Len(segs) >= 1 /\ segs[1].kind \in OddKinds
Detection(label, raw) == [label |-> <<T(label)>>, box |-> ExpectedBox(raw)]

\* The parsed value is neither a flat list of exactly 4 numbers nor a list whose
\* every element is a list of numbers.
Unsupported(sg) ==
    sg.kind \in {"numbers", "then_number", "then_str", "then_dict", "then_name",
                 "then_strbox", "str_first"}

\* C18: a block whose parsed value is neither a flat list of exactly 4 numbers
\* nor a list of lists of numbers contributes no detection at all, the
\* sub-lists before the offending element included, and the block after it is
\* still parsed.
C18_InvalidBlockAllOrNothing ==
    (Parsed /\ KnownDims /\ OddText /\ Unsupported(segs[1])) =>
        boxes = [i \in 1..(Len(segs) - 1) |-> Detection(segs[i + 1].label, segs[i + 1].raw[1])]

\* The bracket expression holds a token that is no number, comma or bracket.
OtherToken(sg) ==
    sg.kind \in {"tuple", "bool", "then_str", "then_dict", "then_name", "then_strbox",
                 "str_first", "invalid"}

C20_ShortCandidateSkippedAlone ==
    (Parsed /\ KnownDims /\ Len(segs) = 1 /\ segs[1].kind = "lists") =>
        LET long == SelectSeq(segs[1].raw, LAMBDA r : Len(r) >= 4)
        IN  boxes = [i \in 1..Len(long) |-> Detection(segs[1].label, long[i])]

C20_Witness ==
    /\ Parsed
    /\ KnownDims
    /\ segs = <<Seg("lists", "a", <<BoxA, ShortBox, LongBox>>, FALSE)>>
    /\ Len(boxes) = 2
    /\ boxes[2].box = ExpectedBox(LongBox)
    /\ boxes[1].box # boxes[2].box

\* ---- ocr_inference ----
Responded == pc = "responded"
Success == Responded /\ response.success
Blank(s) == Strip(s) = <<>>

\* C14: in every success response that carries at least one detection the
\* display text is not blank; when the cleaned text is empty and detections
\* were found, it is the detections' labels joined with ", ".
C14_DetectionsNeverBlankText ==
    (Success /\ response.boxes # <<>>) =>
        /\ ~Blank(response.text)
        /\ Display(response.raw_text).text = <<>> =>
                response.text = JoinWith([i \in 1..Len(boxes) |-> boxes[i].label], <<COMMA, SP>>)

\* The dimension could not be read, or is zero.
Unknown(d) == d = NoneDim \/ d = 0
Served == Responded /\ model # None /\ tokenizer # None /\ upload.read /\ res.kind # "raise"
ScaledWith(raw, w, h) ==
    <<FloatScale(raw[1], w), FloatScale(raw[2], h), FloatScale(raw[3], w), FloatScale(raw[4], h)>>

\* C16: when the image's width or height is unknown or zero the request still
\* ends in a success envelope, and the detections are scaled with 1 in place
\* of that dimension: every coordinate of that dimension is 0 or 1.
C16_UnknownDimensionIsOne ==
    (Served /\ (Unknown(image_width) \/ Unknown(image_height))) =>
        /\ response.success
        /\ response.boxes = boxes
        /\ \A i \in 1..Len(boxes) :
                /\ Unknown(image_width) => boxes[i].box[1] \in {0, 1} /\ boxes[i].box[3] \in {0, 1}
                /\ Unknown(image_height) => boxes[i].box[2] \in {0, 1} /\ boxes[i].box[4] \in {0, 1}
        /\ (res.kind = "str" /\ Len(segs) = 1 /\ IsSingle(segs[1])) =>
                /\ Len(boxes) = 1
                /\ boxes[1].box = ScaledWith(segs[1].raw[1], OrOne(image_width),
                                             OrOne(image_height))

C16_Witness ==
    /\ Served
    /\ image_width = NoneDim
    /\ response.success
    /\ response.image_dims = <<NoneDim, NoneDim>>
    /\ Len(response.boxes) = 1
    /\ response.boxes[1].box = <<1, 1, 0, 0>>

\* ---- concurrent calls ----
\* What a call returns when it runs alone.
Alone(c) ==
    CASE c.fn = "build_prompt" ->
            build_prompt(c.mode, <<>>, c.grounding, NoneText, NoneText, FALSE).prompt
      [] c.fn = "parse_detections" ->
            parse_detections(c.text, c.image_width, c.image_height).boxes
      [] OTHER -> clean_grounding_text(c.text).text

\* The accumulator of a call that runs alone, after n statements.
RECURSIVE AccAlone(_, _)
AccAlone(c, n) == IF n = 0 THEN <<>> ELSE Statement(c, n, AccAlone(c, n - 1))

Candidates(sg) ==
    IF sg.kind = "flat" THEN <<sg.raw[1]>> ELSE SelectSeq(sg.raw, LAMBDA r : Len(r) >= 4)
DetectionsOf(sg) == [j \in 1..Len(Candidates(sg)) |-> Detection(sg.label, Candidates(sg)[j])]

\* A raw text made of plain text and blocks whose expression is a flat list of
\* 4 numbers or a list of lists of numbers.
ListBlocksText ==
    /\ text # NoneText
    /\ \A i \in 1..Len(segs) : segs[i] = Plain \/ segs[i].kind \in {"nested", "flat", "lists"}

\* C21: the detections are the valid candidate boxes of all blocks, none
\* dropped as a duplicate and none moved: block after block in the order of the
\* text and, inside a block, in the order of the sub-lists.
C21_NoDedupNoReorder ==
    (Parsed /\ KnownDims /\ ListBlocksText) =>
        LET bl == Blocks(segs)
        IN  boxes = Flatten([i \in 1..Len(bl) |-> DetectionsOf(bl[i])])

\* ---- build_prompt: the optional parameters ----
PromptBuilt == [prompt |-> prompt, raised |-> "build_prompt" \in raised]

\* C22: a call that differs from the call made only in find_term returns the
\* same prompt unless the mode is find_ref; only in schema, unless the mode is
\* kv_json; only in the free prompt, unless the mode is freeform.
C22_ParameterOnlyInItsMode ==
    Built =>
        /\ mode # "find_ref" =>
                \A ft \in FindTerms :
                    build_prompt(mode, user_prompt, grounding, ft, schema, include_caption)
                        = PromptBuilt
        /\ mode # "kv_json" =>
                \A sc \in Schemas :
                    build_prompt(mode, user_prompt, grounding, find_term, sc, include_caption)
                        = PromptBuilt
        /\ mode # "freeform" =>
                \A up \in UserPrompts :
                    build_prompt(mode, up, grounding, find_term, schema, include_caption)
                        = PromptBuilt

C22_Witness ==
    /\ Built
    /\ mode = "kv_json"
    /\ find_term = <<T("Revenue")>>
    /\ user_prompt = <<T("Read the stamp")>>
    /\ schema = <<T("{\"total\": 0}")>>
    /\ prompt = build_prompt(mode, <<>>, grounding, NoneText, schema, include_caption).prompt
    /\ prompt # build_prompt(mode, user_prompt, grounding, find_term, NoneText,
                             include_caption).prompt

\* C23: whatever the mode, the free prompt, the find_term and the schema, the
\* part of the prompt after the markers holds a character that is not white
\* space.
C23_InstructionNeverEmpty ==
    Built => Strip(InstructionPart(prompt)) # <<>>

\* ---- ocr_inference: outcomes, temp files, envelope ----
Did(e) == \E i \in 1..Len(effects) : effects[i] = e
PassedCheck == model # None /\ tokenizer # None

\* C24: when a request that passed the model-loaded check is answered,
\* whatever the outcome, neither the temp image file nor the output directory
\* is left on disk.
C24_TempFilesRemoved ==
    (Responded /\ PassedCheck) => files = {}

\* C25: a request ends in 503 exactly when model or tokenizer is not loaded,
\* and then nothing was created on disk and the engine was not called; in 500
\* exactly when a step raised; otherwise in a success envelope, which is
\* produced only after the engine call returned.
C25_ThreeOutcomes ==
    Responded =>
        /\ response.status \in {SERVICE_UNAVAILABLE, INTERNAL_SERVER_ERROR, OK}
        /\ response.status = SERVICE_UNAVAILABLE <=> ~PassedCheck
        /\ response.status = SERVICE_UNAVAILABLE => effects = <<>> /\ files = {}
        /\ response.status = INTERNAL_SERVER_ERROR <=>
                PassedCheck /\ (~upload.read \/ res.kind = "raise")
        /\ response.success <=> response.status = OK
        /\ response.success =>
                /\ Did("infer") /\ res.kind # "raise"
                /\ response.raw_text = text

C25_Witness ==
    /\ Responded
    /\ model = Loaded /\ tokenizer = None
    /\ response.status = SERVICE_UNAVAILABLE
    /\ ~Did("create_tmp") /\ ~Did("infer")

\* C26: in a success envelope the boxes are parse_detections of the raw text
\* returned as raw_text (1 in place of an unknown dimension) and the text is
\* clean_grounding_text of the same raw text, followed by the label fallback,
\* whether or not the raw text holds <|ref|>, <|det|> or <|grounding|>.
C26_GuardsChangeNothing ==
    Success =>
        /\ response.raw_text = text
        /\ response.boxes =
                parse_detections(text, OrOne(image_width), OrOne(image_height)).boxes
        /\ response.text = LabelFallback(clean_grounding_text(text).text, response.boxes)

C26_Witness ==
    /\ Success
    /\ Contains(text, DET) /\ ~Contains(text, REF) /\ ~Contains(text, GROUNDING)
    /\ response.boxes = <<>>
    /\ response.text = text
    /\ response.text = clean_grounding_text(text).text

\* C27: in a success envelope metadata.mode is the mode of the request and
\* metadata.grounding is true exactly when build_prompt put the grounding
\* marker after <image> in the prompt sent to the engine, which is when the
\* flag is set or the mode is find_ref, layout_map or pii_redact.
C27_MetadataMatchesPrompt ==
    Success =>
        /\ response.mode = mode
        /\ prompt = build_prompt(mode, user_prompt, grounding, find_term, schema,
                                 include_caption).prompt
        /\ response.grounding <=> Markers(mode, grounding) = <<<<IMAGE>>, <<GROUNDING>>>>
        /\ response.grounding <=>
                (grounding \/ mode \in {"find_ref", "layout_map", "pii_redact"})
        /\ response.grounding <=>
                (Len(prompt) > 4 /\ SubSeq(prompt, 1, 4) = <<IMAGE, NL, GROUNDING, NL>>)
        /\ user_prompt = <<>> => (response.grounding <=> Contains(prompt, GROUNDING))

C27_Witness ==
    /\ Success
    /\ mode = "layout_map" /\ ~grounding
    /\ response.grounding
    /\ Count(prompt, GROUNDING) = 1

\* What the engine returned, as text.
EngineText(r) ==
    CASE r.kind \in {"str", "dict"} -> r.parts[1]
      [] r.kind = "list" -> JoinWith(r.parts, <<NL>>)
      [] OTHER -> <<>>

\* C28: in a success envelope raw_text is not empty: it is the engine's
\* result, trimmed, when that is not blank; else the trimmed content of
\* result.mmd when the file exists and is not blank; else "No text returned by
\* model."; the file is read only when the engine's result is blank.
C28_RawTextSource ==
    Success =>
        /\ ~Blank(response.raw_text)
        /\ response.raw_text =
                IF ~Blank(EngineText(res)) THEN Strip(EngineText(res))
                ELSE IF mmd.exists /\ ~Blank(mmd.content) THEN Strip(mmd.content)
                ELSE NO_TEXT
        /\ Did("read_mmd") <=> (Blank(EngineText(res)) /\ mmd.exists)

C28_Witness ==
    /\ Success
    /\ Blank(EngineText(res))
    /\ mmd.exists /\ ~Blank(mmd.content)
    /\ Did("read_mmd")
    /\ response.raw_text = Strip(mmd.content)

\* ---- range and order of the pixel coordinates ----
\* The text is one single-box block with raw coordinates in [0,999], x1 <= x2
\* and y1 <= y2, and the image dimensions are at least 1.
OrderedBox ==
    /\ Len(segs) = 1 /\ IsSingle(segs[1])
    /\ \A i \in 1..4 : segs[1].raw[1][i] \in 0..FULL_SCALE
    /\ segs[1].raw[1][1] <= segs[1].raw[1][3]
    /\ segs[1].raw[1][2] <= segs[1].raw[1][4]
    /\ image_width >= 1 /\ image_height >= 1

\* C29: for raw coordinates in [0,999] and dimensions >= 1 every pixel
\* coordinate lies in [0, dimension], x against the width and y against the
\* height, and a raw box with x1 <= x2 and y1 <= y2 gives a pixel box with
\* x1 <= x2 and y1 <= y2.  The raw boxes checked are [a, a, a+1, a+1] for every
\* a: pixel(a) <= pixel(a+1) for every a gives pixel(a) <= pixel(b) for a <= b.
C29_PixelsInRangeAndOrdered ==
    (pc = "parsed" /\ OrderedBox) =>
        /\ Len(boxes) = 1
        /\ boxes[1].box[1] \in 0..image_width /\ boxes[1].box[3] \in 0..image_width
        /\ boxes[1].box[2] \in 0..image_height /\ boxes[1].box[4] \in 0..image_height
        /\ boxes[1].box[1] <= boxes[1].box[3]
        /\ boxes[1].box[2] <= boxes[1].box[4]

C29_Witness ==
    /\ pc = "parsed"
    /\ OrderedBox
    /\ segs[1].raw[1] = <<998, 998, 999, 999>>
    /\ image_width = 1920 /\ image_height = 1080
    /\ boxes[1].box = <<1918, 1078, 1920, 1080>>

\* ---- the Flask service: loading the model ----
\* C30: under every interleaving of /ocr and /warmup requests, after the
\* start-up preload or without it, the tokenizer and the model are each loaded
\* at most once, model_loaded is true only when both are set, and after it was
\* set nothing is loaded again.
C30_ModelLoadedOnce ==
    pc = "serving" =>
        /\ Count(effects, "tokenizer") <= 1
        /\ Count(effects, "model") <= 1
        /\ model_loaded => tokenizer = Loaded /\ model = Loaded
        /\ \A i, j \in 1..Len(effects) :
                (i < j /\ effects[i] = "model_loaded") => effects[j] = "model_loaded"

====
